---- MODULE Spec2Model ----
(***************************************************************************)
(* Model of voxblox_ros/ptcloud_vis.h: the three layer traversals          *)
(* (createColorPointcloudFromLayer for colors, createColorPointcloudFrom-  *)
(* Layer for intensities, createOccupancyBlocksFromLayer), the four sample *)
(* voxel predicates and the four preset bindings.                          *)
(*                                                                         *)
(* Units.  Voxel distances, weights and surface distances are integers in  *)
(* units of 1e-4 (so 1e-3 is 10, 0.05 is 500, 0.1 is 1000, 3.7 is 37000).  *)
(* Coordinates and voxel sizes are integers in metres; voxel sizes are     *)
(* even so that a voxel centre is an integer.                              *)
(***************************************************************************)
EXTENDS Integers, Sequences, FiniteSets, TLC

\* ------------------------------------------------------------------ bounds
\* Largest number of allocated blocks of a layer.
MaxBlocks == 2
\* Largest voxels_per_side of a layer.
MaxVps == 2
\* Largest number of traversals one caller runs on its accumulator.
MaxCalls == 2

\* ------------------------------------------------------- program constants
\* 1e-3, the weight above which a TSDF voxel counts as observed.
WeightFloor == 10
\* The offset and the scale applied to coord.z() before the rainbow map.
RainbowZOffset == 5
RainbowZScale == 10

Abs(d) == IF d < 0 THEN -d ELSE d

Range(s) == {s[k] : k \in 1..Len(s)}

\* --------------------------------------------------------------- the layer
\* Color(): the default-constructed color.
DefaultColor == [r |-> 0, g |-> 0, b |-> 0, a |-> 0]
Red == [r |-> 255, g |-> 0, b |-> 0, a |-> 255]
Green == [r |-> 0, g |-> 255, b |-> 0, a |-> 255]
Blue == [r |-> 0, g |-> 0, b |-> 255, a |-> 255]

\* TsdfVoxel values a layer is filled with.
TsdfPalette ==
  << [distance |-> 500, weight |-> 10000, color |-> Red],
     [distance |-> 0, weight |-> 0, color |-> Green],
     [distance |-> -5000, weight |-> 100, color |-> Blue],
     [distance |-> -5000, weight |-> 5, color |-> Green],
     [distance |-> -1000, weight |-> 10, color |-> Red],
     [distance |-> 0, weight |-> 100, color |-> Blue] >>

\* EsdfVoxel values a layer is filled with.
EsdfPalette ==
  << [distance |-> 37000, observed |-> TRUE],
     [distance |-> 20000, observed |-> FALSE],
     [distance |-> 0, observed |-> TRUE],
     [distance |-> -5000, observed |-> FALSE] >>

PaletteOf(kind) == IF kind = "tsdf" THEN TsdfPalette ELSE EsdfPalette

\* Block indices a layer may have allocated.
BlockIndices == {<<k, 0, -k>> : k \in 0..(MaxBlocks - 1)}

\* getAllAllocatedBlocks returns the allocated indices in the order of the
\* layer's hash map, which is any order: every duplicate-free list.
BlockOrders ==
  UNION {{o \in [1..n -> BlockIndices] : \A j, k \in 1..n : j # k => o[j] # o[k]}
         : n \in 0..MaxBlocks}

NumVoxels(vps) == vps * vps * vps

\* A layer of the given kind whose voxels run through the palette from seed.
PatternLayer(kind, vps, voxel_size, order, seed) ==
  [kind |-> kind,
   voxel_size |-> voxel_size,
   order |-> order,
   voxels_per_side |-> vps,
   block_map |->
     [b \in Range(order) |->
        LET j == CHOOSE k \in 1..Len(order) : order[k] = b
        IN [i \in 0..(NumVoxels(vps) - 1) |->
              PaletteOf(kind)[((seed + (j - 1) * NumVoxels(vps) + i)
                               % Len(PaletteOf(kind))) + 1]]]]

\* One block at (0,0,0), two voxels per side: linear index 0 has weight 1 and
\* distance 0.05, every other voxel has weight 0.
ScenarioLayer ==
  [kind |-> "tsdf",
   voxel_size |-> 2,
   order |-> << <<0, 0, 0>> >>,
   voxels_per_side |-> 2,
   block_map |->
     [b \in {<<0, 0, 0>>} |->
        [i \in 0..7 |-> IF i = 0 THEN TsdfPalette[1] ELSE TsdfPalette[2]]]]

Layers ==
  {PatternLayer(kind, vps, 2, order, seed) :
     kind \in {"tsdf", "esdf"}, vps \in 1..MaxVps, order \in BlockOrders,
     seed \in 0..3}
  \cup {PatternLayer("tsdf", vps, 2, order, seed) :
     vps \in 1..MaxVps, order \in BlockOrders, seed \in 4..5}
  \cup {PatternLayer(kind, vps, 4, order, 0) :
     kind \in {"tsdf", "esdf"}, vps \in 1..MaxVps, order \in BlockOrders}
  \cup {ScenarioLayer}

\* ------------------------------------------------- the layer's accessors
\* Layer::getAllAllocatedBlocks: the allocated block indices.
getAllAllocatedBlocks(l) == l.order

\* Layer::getBlockByIndex: the block allocated at index.
getBlockByIndex(l, index) == l.block_map[index]

\* Block::getVoxelByLinearIndex.
getVoxelByLinearIndex(block, linear_index) == block[linear_index]

\* Block::computeCoordinatesFromLinearIndex: the centre of the voxel, from
\* the block's origin, the voxel's position in the block and the voxel size.
computeCoordinatesFromLinearIndex(index, vps, voxel_size, linear_index) ==
  LET vx == linear_index % vps
      vy == (linear_index \div vps) % vps
      vz == linear_index \div (vps * vps)
      at(k, v) == index[k] * vps * voxel_size + v * voxel_size
                  + voxel_size \div 2
  IN [x |-> at(1, vx), y |-> at(2, vy), z |-> at(3, vz)]

\* rainbowColorMap: a deterministic ramp from a scalar to an opaque color.
rainbowColorMap(h) ==
  LET s == h % 256 IN [r |-> s, g |-> 255 - s, b |-> (2 * s) % 256, a |-> 255]

\* colorVoxbloxToMsg: the four 8-bit channels as fractions of 255.
colorVoxbloxToMsg(c) ==
  [r |-> <<c.r, 255>>, g |-> <<c.g, 255>>, b |-> <<c.b, 255>>,
   a |-> <<c.a, 255>>]

\* ------------------------------------------------------- voxel predicates
\* Each returns [ret, out]: the boolean result and the content of the slot
\* behind the output pointer after the call.
\* Mutant: the distance compared without std::abs.
visualizeNearSurfaceTsdfVoxels_NoAbs(voxel, coord, surface_distance, color) ==
  IF voxel.weight > 0 /\ voxel.distance < surface_distance
  THEN [ret |-> TRUE, out |-> voxel.color]
  ELSE [ret |-> FALSE, out |-> color]

visualizeNearSurfaceTsdfVoxels(voxel, coord, surface_distance, color) ==
  IF voxel.weight > 0 /\ Abs(voxel.distance) < surface_distance
  THEN [ret |-> TRUE, out |-> voxel.color]
  ELSE [ret |-> FALSE, out |-> color]

visualizeDistanceIntensityTsdfVoxels(voxel, coord, intensity) ==
  IF voxel.weight > WeightFloor
  THEN [ret |-> TRUE, out |-> voxel.distance]
  ELSE [ret |-> FALSE, out |-> intensity]

\* Mutant: the predicate passes without writing the distance.
visualizeDistanceIntensityEsdfVoxels_NoWrite(voxel, coord, intensity) ==
  IF voxel.observed
  THEN [ret |-> TRUE, out |-> intensity]
  ELSE [ret |-> FALSE, out |-> intensity]

visualizeDistanceIntensityEsdfVoxels(voxel, coord, intensity) ==
  IF voxel.observed
  THEN [ret |-> TRUE, out |-> voxel.distance]
  ELSE [ret |-> FALSE, out |-> intensity]

\* Mutant: a voxel at distance 0 no longer counts as occupied.
visualizeOccupiedTsdfVoxels_Strict(voxel, coord) ==
  IF voxel.weight > WeightFloor /\ voxel.distance < 0 THEN TRUE ELSE FALSE

visualizeOccupiedTsdfVoxels(voxel, coord) ==
  IF voxel.weight > WeightFloor /\ voxel.distance <= 0 THEN TRUE ELSE FALSE

\* Whether a voxel of either kind has been observed (used by the caller's
\* writeOnFail predicate below).
Seen(voxel) ==
  IF "observed" \in DOMAIN voxel THEN voxel.observed ELSE voxel.weight > 0

\* The std::function objects a caller passes.  The four samples above (the
\* near-surface one bound to a surface distance), and three predicates of
\* the caller's own: alwaysTrue and alwaysFalse never write the slot, and
\* writeOnFail writes a seen voxel's value and fails, and passes on an
\* unseen voxel without writing.
NearSurfaceFn(sd) ==
  [surface_distance |-> sd, name |-> "visualizeNearSurfaceTsdfVoxels"]
Fn(name) == [surface_distance |-> 0, name |-> name]

CallColorFunction(vis_function, voxel, coord, color) ==
  CASE vis_function.name = "visualizeNearSurfaceTsdfVoxels" ->
         visualizeNearSurfaceTsdfVoxels(voxel, coord,
                                        vis_function.surface_distance, color)
    [] vis_function.name = "alwaysTrue" -> [ret |-> TRUE, out |-> color]
    [] vis_function.name = "alwaysFalse" -> [ret |-> FALSE, out |-> color]
    [] vis_function.name = "writeOnFail" ->
         IF Seen(voxel) THEN [ret |-> FALSE, out |-> voxel.color]
         ELSE [ret |-> TRUE, out |-> color]

CallIntensityFunction(vis_function, voxel, coord, intensity) ==
  CASE vis_function.name = "visualizeDistanceIntensityTsdfVoxels" ->
         visualizeDistanceIntensityTsdfVoxels(voxel, coord, intensity)
    [] vis_function.name = "visualizeDistanceIntensityEsdfVoxels" ->
         visualizeDistanceIntensityEsdfVoxels(voxel, coord, intensity)
    [] vis_function.name = "alwaysTrue" -> [ret |-> TRUE, out |-> intensity]
    [] vis_function.name = "alwaysFalse" -> [ret |-> FALSE, out |-> intensity]
    [] vis_function.name = "writeOnFail" ->
         IF Seen(voxel) THEN [ret |-> FALSE, out |-> voxel.distance]
         ELSE [ret |-> TRUE, out |-> intensity]

CallFunction(vis_function, voxel, coord) ==
  CASE vis_function.name = "visualizeOccupiedTsdfVoxels" ->
         visualizeOccupiedTsdfVoxels(voxel, coord)
    [] vis_function.name = "alwaysTrue" -> TRUE
    [] vis_function.name = "alwaysFalse" -> FALSE

\* ------------------------------------------------------------------ state
VARIABLES
  layer,           \* the Layer<VoxelType> passed by const reference
  pointcloud_rgb,  \* the caller's pcl::PointCloud<pcl::PointXYZRGB>
  pointcloud_i,    \* the caller's pcl::PointCloud<pcl::PointXYZI>
  marker_array,    \* the caller's visualization_msgs::MarkerArray (markers)
  pc,              \* "idle", "blocks", "voxels" or "aborted"
  call,            \* the running (or last) call: mode, predicate, arguments
  blocks,          \* the local BlockIndexList
  block_pos,       \* position of the outer loop in blocks
  linear_index,    \* the inner loop's counter
  color,           \* the local Color handed to the predicate
  intensity,       \* the local double handed to the predicate
  block_marker,    \* the local visualization_msgs::Marker
  ncalls,          \* calls that have returned
  log,             \* history: the predicate invocations of the call
  entry_acc        \* history: the call's accumulator as it was on entry

vars ==
  <<layer, pointcloud_rgb, pointcloud_i, marker_array, pc, call, blocks,
    block_pos, linear_index, color, intensity, block_marker, ncalls, log,
    entry_acc>>

\* What a caller's accumulators hold from earlier use.
StalePointRGB == [r |-> 7, g |-> 7, b |-> 7, x |-> 99, y |-> 99, z |-> 99]
StalePointI == [x |-> 99, y |-> 99, z |-> 99, intensity |-> 7]

NoCall ==
  [vis_function |-> Fn("none"), mode |-> "none", target |-> "null",
   frame_id |-> ""]
NoMarker ==
  [frame_id |-> "", ns |-> "", id |-> 0, type |-> "", scale |-> <<0, 0, 0>>,
   action |-> "", points |-> <<>>, colors |-> <<>>]

Init ==
  /\ layer \in Layers
  /\ pointcloud_rgb = <<StalePointRGB>>
  /\ pointcloud_i = <<StalePointI>>
  /\ marker_array = <<>>
  /\ pc = "idle"
  /\ call = NoCall
  /\ blocks = <<>>
  /\ block_pos = 0
  /\ linear_index = 0
  /\ color = DefaultColor
  /\ intensity = 0
  /\ block_marker = NoMarker
  /\ ncalls = 0
  /\ log = <<>>
  /\ entry_acc = <<>>

\* Mutant: a traversal that drains the layer's block list as it goes.
ConstLayer_Drained == layer' = [layer EXCEPT !.order = <<>>]

\* const Layer<VoxelType>& layer, and const VoxelType& voxel in the
\* predicates: no statement of a traversal writes the layer.
ConstLayer == layer' = layer

\* The accumulator a call of the given mode is handed.
Accumulator(mode) ==
  CASE mode = "color" -> pointcloud_rgb
    [] mode = "intensity" -> pointcloud_i
    [] mode = "occupancy" -> marker_array
    [] OTHER -> <<>>

\* Mutant: the check compiled out.
CHECK_NOTNULL_Disabled(ptr) == TRUE

\* CHECK_NOTNULL(ptr): passes when the pointer is not null, aborts otherwise.
CHECK_NOTNULL(ptr) == ptr # "null"

\* A caller runs one traversal, and may run it again on the same layer and
\* accumulator, MaxCalls times at most.
MayCall(c) ==
  /\ pc = "idle"
  /\ ncalls < MaxCalls
  /\ ncalls > 0 => c = call

\* The failing CHECK_NOTNULL of any of the three functions: the process
\* aborts on the function's first statement.
CheckFails(c) ==
  /\ MayCall(c)
  /\ ~CHECK_NOTNULL(c.target)
  /\ pc' = "aborted"
  /\ call' = c
  /\ log' = <<>>
  /\ entry_acc' = Accumulator(c.mode)
  /\ ConstLayer
  /\ UNCHANGED <<pointcloud_rgb, pointcloud_i, marker_array, blocks,
                 block_pos, linear_index, color, intensity, block_marker,
                 ncalls>>

\* Mutant: the clear() left out.
Clear_Missing(pointcloud) == pointcloud

\* pointcloud->clear().
Clear(pointcloud) == <<>>

\* Mutant: one factor short.
NumVoxelsPerBlock_Squared(vps) == vps * vps

\* num_voxels_per_block, cached from layer.voxels_per_side().
NumVoxelsPerBlock(vps) == vps * vps * vps

\* Mutant: the loop stops one voxel early.
InnerLoopCondition_OffByOne(i, num_voxels_per_block) ==
  i + 1 < num_voxels_per_block

\* The inner loop's condition.
InnerLoopCondition(i, num_voxels_per_block) == i < num_voxels_per_block

\* Mutant: the entry is pushed whatever the predicate returned.
PushBackAlways(ret, list, entry) == Append(list, entry)

\* if (vis_function(...)) { ... push_back(entry); }
PushBackIf(ret, list, entry) == IF ret THEN Append(list, entry) ELSE list

\* createColorPointcloudFromLayer for colors, up to the loop.
ColorEntry(c) ==
  /\ MayCall(c)
  /\ CHECK_NOTNULL(c.target)
  /\ pointcloud_rgb' = Clear(pointcloud_rgb)
  /\ blocks' = getAllAllocatedBlocks(layer)
  /\ color' = DefaultColor
  /\ block_pos' = 1
  /\ pc' = "blocks"
  /\ call' = c
  /\ log' = <<>>
  /\ entry_acc' = pointcloud_rgb
  /\ ConstLayer
  /\ UNCHANGED <<pointcloud_i, marker_array, linear_index, intensity,
                 block_marker, ncalls>>

\* createColorPointcloudFromLayer for intensities, up to the loop.
IntensityEntry(c) ==
  /\ MayCall(c)
  /\ CHECK_NOTNULL(c.target)
  /\ pointcloud_i' = Clear(pointcloud_i)
  /\ blocks' = getAllAllocatedBlocks(layer)
  /\ intensity' = 0
  /\ block_pos' = 1
  /\ pc' = "blocks"
  /\ call' = c
  /\ log' = <<>>
  /\ entry_acc' = pointcloud_i
  /\ ConstLayer
  /\ UNCHANGED <<pointcloud_rgb, marker_array, linear_index, color,
                 block_marker, ncalls>>

\* The marker createOccupancyBlocksFromLayer sets up before its loop.
NewBlockMarker(frame_id, voxel_size) ==
  [frame_id |-> frame_id,
   ns |-> "occupied_voxels",
   id |-> 0,
   type |-> "CUBE_LIST",
   scale |-> <<voxel_size, voxel_size, voxel_size>>,
   action |-> "ADD",
   points |-> <<>>,
   colors |-> <<>>]

\* createOccupancyBlocksFromLayer, up to the loop.
OccupancyEntry(c) ==
  /\ MayCall(c)
  /\ CHECK_NOTNULL(c.target)
  /\ block_marker' = NewBlockMarker(c.frame_id, layer.voxel_size)
  /\ blocks' = getAllAllocatedBlocks(layer)
  /\ block_pos' = 1
  /\ pc' = "blocks"
  /\ call' = c
  /\ log' = <<>>
  /\ entry_acc' = marker_array
  /\ ConstLayer
  /\ UNCHANGED <<pointcloud_rgb, pointcloud_i, marker_array,
                 linear_index, color, intensity, ncalls>>

\* ------------------------------------------------------------- the loops
\* for (const BlockIndex& index : blocks): the next block, if any.
NextBlock ==
  /\ pc = "blocks"
  /\ block_pos <= Len(blocks)
  /\ linear_index' = 0
  /\ pc' = "voxels"
  /\ ConstLayer
  /\ UNCHANGED <<pointcloud_rgb, pointcloud_i, marker_array, call,
                 blocks, block_pos, color, intensity, block_marker, ncalls,
                 log, entry_acc>>

\* The inner loop's exit: linear_index has reached num_voxels_per_block.
EndBlock ==
  /\ pc = "voxels"
  /\ ~InnerLoopCondition(linear_index,
                         NumVoxelsPerBlock(layer.voxels_per_side))
  /\ block_pos' = block_pos + 1
  /\ pc' = "blocks"
  /\ ConstLayer
  /\ UNCHANGED <<pointcloud_rgb, pointcloud_i, marker_array, call,
                 blocks, linear_index, color, intensity, block_marker, ncalls,
                 log, entry_acc>>

\* The voxel and the coordinate the inner loop's body works on.
CurrentIndex == blocks[block_pos]
CurrentVoxel ==
  getVoxelByLinearIndex(getBlockByIndex(layer, CurrentIndex), linear_index)
CurrentCoord ==
  computeCoordinatesFromLinearIndex(CurrentIndex, layer.voxels_per_side,
                                    layer.voxel_size, linear_index)

InBody(mode) ==
  /\ pc = "voxels"
  /\ call.mode = mode
  /\ InnerLoopCondition(linear_index,
                        NumVoxelsPerBlock(layer.voxels_per_side))

Logged(ret, attr) ==
  Append(log, [index |-> CurrentIndex, linear_index |-> linear_index,
               coord |-> CurrentCoord, ret |-> ret, attr |-> attr])

\* The pcl::PointXYZRGB built from a coordinate and the color slot.
PointRGB(coord, c) ==
  [r |-> c.r, g |-> c.g, b |-> c.b, x |-> coord.x, y |-> coord.y,
   z |-> coord.z]

\* The pcl::PointXYZI built from a coordinate and the intensity slot.
PointI(coord, i) ==
  [x |-> coord.x, y |-> coord.y, z |-> coord.z, intensity |-> i]

\* The geometry_msgs::Point at a coordinate.
CubeCenter(coord) == [x |-> coord.x, y |-> coord.y, z |-> coord.z]

\* The color of the cube at a coordinate.
CubeColor(coord) ==
  colorVoxbloxToMsg(rainbowColorMap((coord.z - RainbowZOffset)
                                    * RainbowZScale))

\* Mutant: a color declared inside the loop, fresh for every voxel.
ColorArgument_Fresh == DefaultColor

\* &color and &intensity: the slots the predicate is handed are the two
\* locals declared before the loops.
ColorArgument == color
IntensityArgument == intensity

\* One pass of the inner loop of the color traversal.
ColorVisit ==
  /\ InBody("color")
  /\ LET r == CallColorFunction(call.vis_function, CurrentVoxel,
                                CurrentCoord, ColorArgument)
     IN /\ color' = r.out
        /\ pointcloud_rgb' =
             PushBackIf(r.ret, pointcloud_rgb, PointRGB(CurrentCoord, r.out))
        /\ log' = Logged(r.ret, r.out)
  /\ linear_index' = linear_index + 1
  /\ ConstLayer
  /\ UNCHANGED <<pointcloud_i, marker_array, pc, call, blocks,
                 block_pos, intensity, block_marker, ncalls, entry_acc>>

\* One pass of the inner loop of the intensity traversal.
IntensityVisit ==
  /\ InBody("intensity")
  /\ LET r == CallIntensityFunction(call.vis_function, CurrentVoxel,
                                    CurrentCoord, IntensityArgument)
     IN /\ intensity' = r.out
        /\ pointcloud_i' =
             PushBackIf(r.ret, pointcloud_i, PointI(CurrentCoord, r.out))
        /\ log' = Logged(r.ret, r.out)
  /\ linear_index' = linear_index + 1
  /\ ConstLayer
  /\ UNCHANGED <<pointcloud_rgb, marker_array, pc, call, blocks,
                 block_pos, color, block_marker, ncalls, entry_acc>>

\* One pass of the inner loop of the occupancy traversal.
OccupancyVisit ==
  /\ InBody("occupancy")
  /\ LET ret == CallFunction(call.vis_function, CurrentVoxel, CurrentCoord)
     IN /\ block_marker' =
             [block_marker EXCEPT
                !.points = PushBackIf(ret, @, CubeCenter(CurrentCoord)),
                !.colors = PushBackIf(ret, @, CubeColor(CurrentCoord))]
        /\ log' = Logged(ret, 0)
  /\ linear_index' = linear_index + 1
  /\ ConstLayer
  /\ UNCHANGED <<pointcloud_rgb, pointcloud_i, marker_array, pc, call,
                 blocks, block_pos, color, intensity, ncalls, entry_acc>>

\* The markers of the array once the occupancy traversal is over.
PushBackMarker(markers, marker) == Append(markers, marker)

\* The end of either pointcloud traversal: the outer loop is over.
PointcloudReturn ==
  /\ pc = "blocks"
  /\ call.mode \in {"color", "intensity"}
  /\ ~(block_pos <= Len(blocks))
  /\ pc' = "idle"
  /\ ncalls' = ncalls + 1
  /\ ConstLayer
  /\ UNCHANGED <<pointcloud_rgb, pointcloud_i, marker_array, call,
                 blocks, block_pos, linear_index, color, intensity,
                 block_marker, log, entry_acc>>

\* The end of the occupancy traversal: the marker joins the array.
OccupancyReturn ==
  /\ pc = "blocks"
  /\ call.mode = "occupancy"
  /\ ~(block_pos <= Len(blocks))
  /\ marker_array' = PushBackMarker(marker_array, block_marker)
  /\ pc' = "idle"
  /\ ncalls' = ncalls + 1
  /\ ConstLayer
  /\ UNCHANGED <<pointcloud_rgb, pointcloud_i, call, blocks,
                 block_pos, linear_index, color, intensity, block_marker,
                 log, entry_acc>>

\* ------------------------------------------------------------ the callers
Targets == {"valid", "null"}
FrameIds == {"world", "odom"}
\* 0.1, the surface distance the callers bind.
SurfaceDistances == {1000}

CallOf(mode, vis_function, target, frame_id) ==
  [vis_function |-> vis_function, mode |-> mode, target |-> target,
   frame_id |-> frame_id]

createColorPointcloudFromLayer_Color(vis_function, pointcloud) ==
  \/ CheckFails(CallOf("color", vis_function, pointcloud, ""))
  \/ ColorEntry(CallOf("color", vis_function, pointcloud, ""))

createColorPointcloudFromLayer_Intensity(vis_function, pointcloud) ==
  \/ CheckFails(CallOf("intensity", vis_function, pointcloud, ""))
  \/ IntensityEntry(CallOf("intensity", vis_function, pointcloud, ""))

createOccupancyBlocksFromLayer(vis_function, frame_id, markers) ==
  \/ CheckFails(CallOf("occupancy", vis_function, markers, frame_id))
  \/ OccupancyEntry(CallOf("occupancy", vis_function, markers, frame_id))

createSurfacePointcloudFromTsdfLayer ==
  /\ layer.kind = "tsdf"
  /\ \E surface_distance \in SurfaceDistances, pointcloud \in Targets :
       createColorPointcloudFromLayer_Color(NearSurfaceFn(surface_distance),
                                            pointcloud)

createDistancePointcloudFromTsdfLayer ==
  /\ layer.kind = "tsdf"
  /\ \E pointcloud \in Targets :
       createColorPointcloudFromLayer_Intensity(
         Fn("visualizeDistanceIntensityTsdfVoxels"), pointcloud)

createDistancePointcloudFromEsdfLayer ==
  /\ layer.kind = "esdf"
  /\ \E pointcloud \in Targets :
       createColorPointcloudFromLayer_Intensity(
         Fn("visualizeDistanceIntensityEsdfVoxels"), pointcloud)

createOccupancyBlocksFromTsdfLayer ==
  /\ layer.kind = "tsdf"
  /\ \E frame_id \in FrameIds, markers \in Targets :
       createOccupancyBlocksFromLayer(Fn("visualizeOccupiedTsdfVoxels"),
                                      frame_id, markers)

\* A caller's direct use of the three templates with its own predicates.
CallerColor ==
  \E name \in {"alwaysTrue", "alwaysFalse", "writeOnFail"},
     pointcloud \in Targets :
    /\ name = "writeOnFail" => layer.kind = "tsdf"
    /\ createColorPointcloudFromLayer_Color(Fn(name), pointcloud)

CallerIntensity ==
  \E name \in {"alwaysTrue", "alwaysFalse", "writeOnFail"},
     pointcloud \in Targets :
    createColorPointcloudFromLayer_Intensity(Fn(name), pointcloud)

CallerOccupancy ==
  \E name \in {"alwaysTrue", "alwaysFalse"}, markers \in Targets :
    createOccupancyBlocksFromLayer(Fn(name), "world", markers)

Next ==
  \/ createSurfacePointcloudFromTsdfLayer
  \/ createDistancePointcloudFromTsdfLayer
  \/ createDistancePointcloudFromEsdfLayer
  \/ createOccupancyBlocksFromTsdfLayer
  \/ CallerColor
  \/ CallerIntensity
  \/ CallerOccupancy
  \/ NextBlock
  \/ ColorVisit
  \/ IntensityVisit
  \/ OccupancyVisit
  \/ EndBlock
  \/ PointcloudReturn
  \/ OccupancyReturn

Spec == Init /\ [][Next]_vars

\* ------------------------------------------------- reading the outcome
\* A call has returned / a traversal is running or has returned.
Done == pc = "idle" /\ ncalls > 0
InCall == pc \in {"blocks", "voxels", "idle"} /\ call.mode # "none"
FnName == call.vis_function.name

MapSeq(F(_), list) == [k \in 1..Len(list) |-> F(list[k])]

\* Every (allocated block, linear index) pair of a layer, blocks in the
\* order of enumeration and linear indices ascending within a block.
ExpectedVisits(l) ==
  LET n == NumVoxels(l.voxels_per_side)
  IN [k \in 1..(Len(l.order) * n) |->
        [index |-> l.order[((k - 1) \div n) + 1],
         linear_index |-> (k - 1) % n]]

VoxelOf(l, v) == l.block_map[v.index][v.linear_index]
CoordOf(l, v) ==
  computeCoordinatesFromLinearIndex(v.index, l.voxels_per_side, l.voxel_size,
                                    v.linear_index)

\* The positions the running or last call has put out so far.
OutputPositions ==
  CASE call.mode = "color" -> MapSeq(CubeCenter, pointcloud_rgb)
    [] call.mode = "intensity" -> MapSeq(CubeCenter, pointcloud_i)
    [] call.mode = "occupancy" -> block_marker.points

\* The log entries on which the predicate returned true.
PassedLog == LET Passed(e) == e.ret IN SelectSeq(log, Passed)

\* The pass conditions of the predicates, as the design states them.
PassCondition(fn, voxel) ==
  CASE fn.name = "visualizeNearSurfaceTsdfVoxels" ->
         voxel.weight > 0 /\ Abs(voxel.distance) < fn.surface_distance
    [] fn.name = "visualizeDistanceIntensityTsdfVoxels" -> voxel.weight > 10
    [] fn.name = "visualizeDistanceIntensityEsdfVoxels" -> voxel.observed
    [] fn.name = "visualizeOccupiedTsdfVoxels" ->
         voxel.weight > 10 /\ voxel.distance <= 0
    [] fn.name = "alwaysTrue" -> TRUE
    [] fn.name = "alwaysFalse" -> FALSE
    [] fn.name = "writeOnFail" -> ~Seen(voxel)

\* Whether the predicate writes the slot on a voxel.
WritesSlot(fn, voxel) ==
  CASE fn.name \in {"alwaysTrue", "alwaysFalse"} -> FALSE
    [] fn.name = "writeOnFail" -> Seen(voxel)
    [] OTHER -> PassCondition(fn, voxel)

\* ----------------------------------------------------------------- claims
\* C1: a traversal whose predicate always succeeds produces exactly
\* (number of allocated blocks) * voxels_per_side^3 entries, in each of the
\* three modes (in occupancy mode: positions and colors of the batch).
C1_AlwaysTrueEmitsEveryVoxel ==
  (Done /\ FnName = "alwaysTrue") =>
     LET total == Cardinality(DOMAIN layer.block_map) * layer.voxels_per_side
                  * layer.voxels_per_side * layer.voxels_per_side
     IN /\ Len(OutputPositions) = total
        /\ call.mode = "occupancy" =>
             /\ Len(marker_array[Len(marker_array)].points) = total
             /\ Len(marker_array[Len(marker_array)].colors) = total

C1_Witness ==
  /\ Done
  /\ FnName = "alwaysTrue"
  /\ call.mode = "occupancy"
  /\ layer.voxels_per_side = 2
  /\ Len(layer.order) = 2
  /\ Len(marker_array[Len(marker_array)].points) = 16

\* C2 as stated: with a predicate that always fails the colored point set
\* is empty, the intensity point set is empty, and the occupancy output
\* supplied empty is empty after the call.
C2_Original ==
  (Done /\ FnName = "alwaysFalse") =>
     /\ call.mode = "color" => pointcloud_rgb = <<>>
     /\ call.mode = "intensity" => pointcloud_i = <<>>
     /\ (call.mode = "occupancy" /\ entry_acc = <<>>) => marker_array = <<>>

\* C2 (amended): with a predicate that always fails the colored point set
\* and the intensity point set are empty, and the marker array supplied
\* empty holds exactly one batch, which has no position and no color.
C2_AlwaysFalseEmitsNothing ==
  (Done /\ FnName = "alwaysFalse") =>
     /\ call.mode = "color" => pointcloud_rgb = <<>>
     /\ call.mode = "intensity" => pointcloud_i = <<>>
     /\ (call.mode = "occupancy" /\ entry_acc = <<>>) =>
          /\ Len(marker_array) = 1
          /\ marker_array[1].points = <<>>
          /\ marker_array[1].colors = <<>>

C2_Witness ==
  /\ Done
  /\ FnName = "alwaysFalse"
  /\ call.mode = "occupancy"
  /\ entry_acc = <<>>
  /\ Len(layer.order) = 2
  /\ Len(log) = 2 * NumVoxels(layer.voxels_per_side)
  /\ Len(marker_array) = 1

\* The entries the call has produced, read off its predicate invocations.
ProducedRGB ==
  LET P(e) == PointRGB(e.coord, e.attr) IN MapSeq(P, PassedLog)
ProducedI ==
  LET P(e) == PointI(e.coord, e.attr) IN MapSeq(P, PassedLog)
ProducedCenters ==
  LET P(e) == CubeCenter(e.coord) IN MapSeq(P, PassedLog)

\* C3 as stated: in each of the three modes the accumulator holds, after
\* the call, exactly the entries of that call whatever it held before, and
\* a second identical call leaves what the first left.
C3_Original ==
  Done =>
     /\ call.mode = "color" => pointcloud_rgb = ProducedRGB
     /\ call.mode = "intensity" => pointcloud_i = ProducedI
     /\ call.mode = "occupancy" =>
          /\ Len(marker_array) = 1
          /\ marker_array[1].points = ProducedCenters
     /\ ncalls >= 2 => Accumulator(call.mode) = entry_acc

\* C3 (amended): the two pointcloud traversals clear the supplied cloud
\* before traversing, so after the call it holds exactly the entries of
\* that call and a second identical call leaves what the first left;
\* createOccupancyBlocksFromLayer does not clear the marker array: it
\* appends one batch, holding exactly the entries of that call, to whatever
\* the array held.
C3_ClearedOrAppended ==
  Done =>
     /\ call.mode = "color" =>
          /\ pointcloud_rgb = ProducedRGB
          /\ ncalls >= 2 => pointcloud_rgb = entry_acc
     /\ call.mode = "intensity" =>
          /\ pointcloud_i = ProducedI
          /\ ncalls >= 2 => pointcloud_i = entry_acc
     /\ call.mode = "occupancy" =>
          /\ Len(marker_array) = Len(entry_acc) + 1
          /\ SubSeq(marker_array, 1, Len(entry_acc)) = entry_acc
          /\ marker_array[Len(marker_array)].points = ProducedCenters

C3_Witness ==
  /\ Done
  /\ ncalls = 2
  /\ call.mode = "color"
  /\ pointcloud_rgb # <<>>
  /\ pointcloud_rgb = entry_acc

\* C4: the predicate is invoked exactly once for each (allocated block,
\* linear index) pair, blocks in enumeration order and linear indices
\* ascending, with no early termination, and the output is the subsequence
\* of the voxels on which the predicate passed, in that order, each at its
\* voxel's reconstructed coordinate.
C4_VisitsEveryVoxelInOrder ==
  Done =>
     LET ev == ExpectedVisits(layer)
     IN /\ Len(log) = Len(ev)
        /\ \A k \in 1..Len(log) :
             /\ log[k].index = ev[k].index
             /\ log[k].linear_index = ev[k].linear_index
             /\ log[k].coord = CoordOf(layer, ev[k])
             /\ log[k].ret = PassCondition(call.vis_function,
                                           VoxelOf(layer, ev[k]))
        /\ OutputPositions = ProducedCenters
        /\ Len(Accumulator(call.mode)) =
             IF call.mode = "occupancy" THEN Len(entry_acc) + 1
             ELSE Len(PassedLog)

C4_Witness ==
  /\ Done
  /\ call.mode = "intensity"
  /\ Len(layer.order) = 2
  /\ layer.order[1] = <<1, 0, -1>>
  /\ layer.voxels_per_side = 2
  /\ Len(log) = 16
  /\ Len(pointcloud_i) \in 1..15

\* C5: a call with a null accumulator fails on the spot: no block is
\* enumerated, the predicate is invoked on no voxel and nothing is emitted.
C5_NullTargetAborts ==
  (call.mode # "none" /\ call.target = "null") =>
     /\ pc = "aborted"
     /\ blocks = <<>>
     /\ log = <<>>
     /\ pointcloud_rgb = <<StalePointRGB>>
     /\ pointcloud_i = <<StalePointI>>
     /\ marker_array = <<>>
     /\ block_marker = NoMarker
     /\ ncalls = 0

C5_Witness ==
  /\ pc = "aborted"
  /\ call.mode = "occupancy"
  /\ call.target = "null"
  /\ Len(layer.order) = 2

\* C6: createSurfacePointcloudFromTsdfLayer emits a colored point for a
\* voxel if and only if weight > 0 and abs(distance) < surface_distance,
\* with that voxel's own color; on the one-block scenario it yields exactly
\* one point, at the coordinate of linear index 0.
C6_SurfacePointcloud ==
  (Done /\ FnName = "visualizeNearSurfaceTsdfVoxels") =>
     LET sd == call.vis_function.surface_distance
         Near(v) == /\ VoxelOf(layer, v).weight > 0
                    /\ Abs(VoxelOf(layer, v).distance) < sd
         P(v) == [r |-> VoxelOf(layer, v).color.r,
                  g |-> VoxelOf(layer, v).color.g,
                  b |-> VoxelOf(layer, v).color.b,
                  x |-> CoordOf(layer, v).x, y |-> CoordOf(layer, v).y,
                  z |-> CoordOf(layer, v).z]
     IN /\ pointcloud_rgb = MapSeq(P, SelectSeq(ExpectedVisits(layer), Near))
        /\ layer = ScenarioLayer =>
             pointcloud_rgb =
               << [r |-> 255, g |-> 0, b |-> 0, x |-> 1, y |-> 1, z |-> 1] >>

C6_Witness ==
  /\ Done
  /\ FnName = "visualizeNearSurfaceTsdfVoxels"
  /\ layer = ScenarioLayer
  /\ Len(log) = 8
  /\ Len(pointcloud_rgb) = 1

\* C7: createOccupancyBlocksFromTsdfLayer produces one batch named
\* "occupied_voxels", tagged with the caller's frame id and scaled to the
\* layer's voxel size, holding one position and one color per voxel with
\* weight > 1e-3 and distance <= 0 and nothing else; after every voxel of
\* the traversal the batch has as many colors as positions.
C7_OccupancyBatch ==
  (InCall /\ FnName = "visualizeOccupiedTsdfVoxels") =>
     LET Occupied(v) == /\ VoxelOf(layer, v).weight > 10
                        /\ VoxelOf(layer, v).distance <= 0
         Center(v) == CubeCenter(CoordOf(layer, v))
         Tint(v) == CubeColor(CoordOf(layer, v))
         qualifying == SelectSeq(ExpectedVisits(layer), Occupied)
     IN /\ block_marker.frame_id = call.frame_id
        /\ block_marker.ns = "occupied_voxels"
        /\ block_marker.type = "CUBE_LIST"
        /\ block_marker.scale =
             <<layer.voxel_size, layer.voxel_size, layer.voxel_size>>
        /\ Len(block_marker.points) = Len(block_marker.colors)
        /\ Done =>
             /\ Len(marker_array) = Len(entry_acc) + 1
             /\ marker_array[Len(marker_array)] = block_marker
             /\ block_marker.points = MapSeq(Center, qualifying)
             /\ block_marker.colors = MapSeq(Tint, qualifying)

C7_Witness ==
  /\ Done
  /\ FnName = "visualizeOccupiedTsdfVoxels"
  /\ call.frame_id = "odom"
  /\ layer.voxel_size = 4
  /\ Len(block_marker.points) \in 1..(Len(log) - 1)
  /\ Len(block_marker.colors) = Len(block_marker.points)

\* C8: the distance presets emit an intensity point for a voxel if and only
\* if it is observed (ESDF: observed; TSDF: weight > 1e-3), and the
\* intensity of a point is the distance of the voxel at its coordinate.
C8_DistancePointcloud ==
  (Done /\ FnName \in {"visualizeDistanceIntensityTsdfVoxels",
                        "visualizeDistanceIntensityEsdfVoxels"}) =>
     LET Observed(v) ==
           IF FnName = "visualizeDistanceIntensityEsdfVoxels"
           THEN VoxelOf(layer, v).observed
           ELSE VoxelOf(layer, v).weight > 10
         P(v) == [x |-> CoordOf(layer, v).x, y |-> CoordOf(layer, v).y,
                  z |-> CoordOf(layer, v).z,
                  intensity |-> VoxelOf(layer, v).distance]
     IN pointcloud_i = MapSeq(P, SelectSeq(ExpectedVisits(layer), Observed))

C8_Witness ==
  /\ Done
  /\ FnName = "visualizeDistanceIntensityEsdfVoxels"
  /\ \E k \in 1..Len(pointcloud_i) : pointcloud_i[k].intensity = 37000
  /\ \E k \in 1..Len(log) :
       /\ ~log[k].ret
       /\ VoxelOf(layer, log[k]).distance = 20000
  /\ \A k \in 1..Len(pointcloud_i) : pointcloud_i[k].intensity # 20000

\* What a step leaves alone: the layer, and every accumulator but the one
\* of the call the step belongs to.
C9_Step ==
  /\ layer' = layer
  /\ call'.mode = "color" =>
       (pointcloud_i' = pointcloud_i /\ marker_array' = marker_array)
  /\ call'.mode = "intensity" =>
       (pointcloud_rgb' = pointcloud_rgb /\ marker_array' = marker_array)
  /\ call'.mode = "occupancy" =>
       (pointcloud_rgb' = pointcloud_rgb /\ pointcloud_i' = pointcloud_i)

\* C9: no step of any traversal, in any mode and with any predicate,
\* changes the layer (its blocks, voxels_per_side, voxel_size, voxels), and
\* a call changes no accumulator but its own.
C9_LayerIsReadOnly == [][C9_Step]_vars

C9_Witness ==
  /\ Done
  /\ FnName = "visualizeOccupiedTsdfVoxels"
  /\ Len(layer.order) = 2
  /\ Len(marker_array) = 2
  /\ Len(marker_array[2].points) > 0
  /\ pointcloud_rgb = <<StalePointRGB>>
  /\ pointcloud_i = <<StalePointI>>

\* The slot of the running pointcloud call, its initial content, and the
\* value a predicate writes into it for a voxel.
Slot == IF call.mode = "color" THEN color ELSE intensity
DefaultSlot == IF call.mode = "color" THEN DefaultColor ELSE 0
OwnValue(voxel) == IF call.mode = "color" THEN voxel.color ELSE voxel.distance

\* C10: in color and intensity mode one slot serves the whole traversal,
\* starting at the default color (0.0) and never reset: after an invocation
\* it holds what the predicate wrote, or else what it held before, an entry
\* carries the slot as the predicate left it, and that is the entry's own
\* voxel's value when the predicate writes on every pass.
C10_SharedSlot ==
  (InCall /\ call.mode \in {"color", "intensity"}) =>
     /\ Slot = IF log = <<>> THEN DefaultSlot ELSE log[Len(log)].attr
     /\ \A k \in 1..Len(log) :
          log[k].attr =
            IF WritesSlot(call.vis_function, VoxelOf(layer, log[k]))
            THEN OwnValue(VoxelOf(layer, log[k]))
            ELSE IF k = 1 THEN DefaultSlot ELSE log[k - 1].attr
     /\ call.mode = "color" => pointcloud_rgb = ProducedRGB
     /\ call.mode = "intensity" => pointcloud_i = ProducedI
     /\ FnName \notin {"alwaysTrue", "alwaysFalse", "writeOnFail"} =>
          \A k \in 1..Len(log) :
            log[k].ret => log[k].attr = OwnValue(VoxelOf(layer, log[k]))

C10_Witness ==
  /\ Done
  /\ call.mode = "color"
  /\ FnName = "writeOnFail"
  /\ \E k \in 1..Len(log) :
       /\ log[k].ret
       /\ log[k].attr # DefaultColor
       /\ log[k].attr # VoxelOf(layer, log[k]).color
       /\ \E j \in 1..(k - 1) :
            /\ ~log[j].ret
            /\ VoxelOf(layer, log[j]).color = log[k].attr
       /\ \E n \in 1..Len(pointcloud_rgb) :
            /\ CubeCenter(pointcloud_rgb[n]) = CubeCenter(log[k].coord)
            /\ pointcloud_rgb[n].r = log[k].attr.r
            /\ pointcloud_rgb[n].g = log[k].attr.g
            /\ pointcloud_rgb[n].b = log[k].attr.b

====
